---------------------------- MODULE Spec2Model ----------------------------
(***************************************************************************)
(* A model of pngme: the PNG chunk-type validator (chunk_type.rs), the     *)
(* chunk encoder/decoder with its CRC check (chunk.rs), the chunk          *)
(* container used by the commands (crate::png) and the command dispatcher  *)
(* (commands.rs).                                                          *)
(*                                                                         *)
(* Representation.  A byte is a number in 0..255.  A Rust string is the    *)
(* sequence of its Unicode scalar values; its bytes are its UTF-8          *)
(* encoding.  A u32 is the pair <<hi, lo>> of its 16-bit halves, because   *)
(* TLC's integers are 32-bit signed and a CRC does not fit in them.        *)
(* A Result is a record with the field ok, and val or err.                 *)
(***************************************************************************)
EXTENDS Naturals, Sequences, FiniteSets

VARIABLES
    type_op,    \* which ChunkType constructor ran last, with its input and result
    chunk,      \* the Chunk built by Chunk::new
    buf,        \* the byte buffer handed to Chunk::try_from
    parsed,     \* the result of Chunk::try_from(buf)
    stage,      \* where the chunk round trip stands
    png,        \* the container's chunk sequence
    hist,       \* the container operations performed so far, latest last
    disk,       \* the content of the PNG file the commands work on
    ret,        \* what run returned for the last command
    stdout      \* what the last command printed

vars == <<type_op, chunk, buf, parsed, stage, png, hist, disk, ret, stdout>>

Ok(v) == [ok |-> TRUE, val |-> v]

Err(e) == [ok |-> FALSE, err |-> e]

None == [some |-> FALSE]

Some(v) == [some |-> TRUE, val |-> v]

----------------------------------------------------------------------------
(* Bytes, strings, u32 *)

Byte == 0..255

\* char::is_ascii_uppercase / u8::is_ascii_uppercase
is_ascii_uppercase(c) == c >= 65 /\ c <= 90

\* char::is_ascii_lowercase / u8::is_ascii_lowercase
is_ascii_lowercase(c) == c >= 97 /\ c <= 122

\* The number of bytes of one char in UTF-8.
len_utf8(c) == IF c < 128 THEN 1 ELSE IF c < 2048 THEN 2 ELSE IF c < 65536 THEN 3 ELSE 4

\* str::len: the length of the string in bytes, not in chars.
RECURSIVE str_len(_)
str_len(s) == IF s = <<>> THEN 0 ELSE len_utf8(Head(s)) + str_len(Tail(s))

\* The UTF-8 encoding of one char (chars of at most two bytes are all the model uses;
\* three-byte chars are encoded too).
encode_utf8(c) ==
    IF c < 128 THEN <<c>>
    ELSE IF c < 2048 THEN <<192 + (c \div 64), 128 + (c % 64)>>
    ELSE <<224 + (c \div 4096), 128 + ((c \div 64) % 64), 128 + (c % 64)>>

\* str::as_bytes
RECURSIVE as_bytes(_)
as_bytes(s) == IF s = <<>> THEN <<>> ELSE encode_utf8(Head(s)) \o as_bytes(Tail(s))

IsCont(b) == b >= 128 /\ b <= 191

\* str::from_utf8 / String::from_utf8: the chars of a well-formed UTF-8 byte
\* sequence, or Utf8Error.
RECURSIVE from_utf8(_)
from_utf8(b) ==
    IF b = <<>> THEN Ok(<<>>)
    ELSE LET b1 == b[1]
             n  == Len(b)
             w  == IF b1 < 128 THEN 1
                   ELSE IF b1 >= 194 /\ b1 <= 223 THEN 2
                   ELSE IF b1 >= 224 /\ b1 <= 239 THEN 3
                   ELSE IF b1 >= 240 /\ b1 <= 244 THEN 4
                   ELSE 0
             good == /\ w > 0
                     /\ n >= w
                     /\ \A i \in 2..w : IsCont(b[i])
                     /\ (b1 = 224 => b[2] >= 160)
                     /\ (b1 = 237 => b[2] <= 159)
                     /\ (b1 = 240 => b[2] >= 144)
                     /\ (b1 = 244 => b[2] <= 143)
             c  == IF w = 1 THEN b1
                   ELSE IF w = 2 THEN (b1 - 192) * 64 + (b[2] - 128)
                   ELSE IF w = 3 THEN ((b1 - 224) * 64 + (b[2] - 128)) * 64 + (b[3] - 128)
                   ELSE (((b1 - 240) * 64 + (b[2] - 128)) * 64 + (b[3] - 128)) * 64 + (b[4] - 128)
         IN  IF ~good THEN Err("Utf8Error")
             ELSE LET rest == from_utf8(SubSeq(b, w + 1, n))
                  IN  IF rest.ok THEN Ok(<<c>> \o rest.val) ELSE rest

\* n as u32, for a length n
as_u32(n) == <<(n \div 65536) % 65536, n % 65536>>

\* u32 as usize (a 64-bit target); the model only calls it below 2^31
as_usize(u) == u[1] * 65536 + u[2]

\* u32::to_be_bytes
to_be_bytes(u) == <<u[1] \div 256, u[1] % 256, u[2] \div 256, u[2] % 256>>

\* u32::from_be_bytes
from_be_bytes(b) == <<b[1] * 256 + b[2], b[3] * 256 + b[4]>>

\* bitwise exclusive or of two naturals
RECURSIVE Xor(_, _)
Xor(a, b) ==
    IF a = 0 THEN b
    ELSE IF b = 0 THEN a
    ELSE ((a + b) % 2) + 2 * Xor(a \div 2, b \div 2)

Xor32(u, v) == <<Xor(u[1], v[1]), Xor(u[2], v[2])>>

\* u >> n for a u32 and n in {1, 8}
Shr(u, n) ==
    LET d == IF n = 1 THEN 2 ELSE 256
    IN  <<u[1] \div d, (u[2] \div d) + (u[1] % d) * (65536 \div d)>>

----------------------------------------------------------------------------
(* CRC-32/ISO-HDLC, as crc::Crc::<u32>::new(&CRC_32_ISO_HDLC).checksum:     *)
(* polynomial 0x04C11DB7 reflected (0xEDB88320), init and xorout            *)
(* 0xFFFFFFFF, a 256-entry table consumed one byte at a time.               *)

\* one step of the reflected division: (crc >> 1) ^ (poly if the low bit is set)
CrcStep(u) ==
    IF u[2] % 2 = 1 THEN Xor32(Shr(u, 1), <<60856, 33568>>) ELSE Shr(u, 1)

CrcTable ==
    [i \in Byte |->
        CrcStep(CrcStep(CrcStep(CrcStep(CrcStep(CrcStep(CrcStep(CrcStep(<<0, i>>))))))))]

\* Crc::update over bytes[lo..hi], one byte at a time:
\* crc = table[(crc ^ byte) & 0xFF] ^ (crc >> 8).  The range is halved rather than
\* walked, and the left half is evaluated (by the comparison) before the right half
\* starts, so that the evaluation stays shallow.
RECURSIVE CrcUpdate(_, _, _, _)
CrcUpdate(crc, bytes, lo, hi) ==
    IF lo > hi THEN crc
    ELSE IF lo = hi THEN Xor32(CrcTable[Xor(crc[2] % 256, bytes[lo])], Shr(crc, 8))
    ELSE LET mid  == (lo + hi) \div 2
             left == CrcUpdate(crc, bytes, lo, mid)
         IN  IF left = <<>> THEN left ELSE CrcUpdate(left, bytes, mid + 1, hi)

\* checksum without the final xor with 0xFFFFFFFF (CRC-32/JAMCRC): C5 fails on it
checksum_no_xorout(bytes) == CrcUpdate(<<65535, 65535>>, bytes, 1, Len(bytes))

checksum(bytes) == Xor32(CrcUpdate(<<65535, 65535>>, bytes, 1, Len(bytes)), <<65535, 65535>>)

----------------------------------------------------------------------------
(* chunk_type.rs *)

IsLetter(c) == is_ascii_uppercase(c) \/ is_ascii_lowercase(c)

\* from_str rejecting only strings longer than 4 bytes (> for !=): C7 fails on it
ChunkType_from_str_at_most_4(s) ==
    IF str_len(s) > 4 THEN Err("InvalidTypeCodeError")
    ELSE IF \E i \in 1..Len(s) : ~IsLetter(s[i]) THEN Err("InvalidTypeCodeError")
    ELSE Ok([type_code |-> [i \in 1..4 |-> IF i <= Len(s) THEN s[i] % 256 ELSE 0]])

\* impl FromStr for ChunkType: the array starts as [0; 4] and is filled char by char
ChunkType_from_str(s) ==
    IF str_len(s) # 4 THEN Err("InvalidTypeCodeError")
    ELSE IF \E i \in 1..Len(s) : ~IsLetter(s[i]) THEN Err("InvalidTypeCodeError")
    ELSE Ok([type_code |-> [i \in 1..4 |-> IF i <= Len(s) THEN s[i] % 256 ELSE 0]])

\* impl TryFrom<[u8; 4]> for ChunkType
ChunkType_try_from(type_code) ==
    IF \E i \in 1..4 : ~is_ascii_lowercase(type_code[i]) /\ ~is_ascii_uppercase(type_code[i])
    THEN Err("InvalidTypeCodeError")
    ELSE Ok([type_code |-> type_code])

bytes(t) == t.type_code

\* impl Display for ChunkType: from_utf8(..).unwrap()
ChunkType_to_string(t) ==
    LET r == from_utf8(t.type_code) IN IF r.ok THEN Ok(r.val) ELSE Err("panic")

\* byte & (1 << 5) != 0
Bit5(b) == (b \div 32) % 2 = 1

is_critical(t) == IF Bit5(t.type_code[1]) THEN FALSE ELSE TRUE

is_public(t) == IF Bit5(t.type_code[2]) THEN FALSE ELSE TRUE

is_reserved_bit_valid(t) == IF Bit5(t.type_code[3]) THEN FALSE ELSE TRUE

\* is_safe_to_copy with the test of is_critical (!= 0 for == 0): C9 fails on it
is_safe_to_copy_inverted(t) == IF Bit5(t.type_code[4]) THEN FALSE ELSE TRUE

is_safe_to_copy(t) == IF ~Bit5(t.type_code[4]) THEN FALSE ELSE TRUE

\* is_valid without the reserved bit: C8 fails on it
is_valid_letters_only(t) ==
    IF \E i \in 1..4 : ~is_ascii_lowercase(t.type_code[i]) /\ ~is_ascii_uppercase(t.type_code[i])
    THEN FALSE
    ELSE TRUE

is_valid(t) ==
    IF \E i \in 1..4 : ~is_ascii_lowercase(t.type_code[i]) /\ ~is_ascii_uppercase(t.type_code[i])
    THEN FALSE
    ELSE is_reserved_bit_valid(t)

----------------------------------------------------------------------------
(* chunk.rs *)

\* <&[u8] as std::io::Read>::read into a zeroed buffer of n bytes: copies
\* min(n, remaining) bytes, advances the slice, and never fails.
Read(byte_sequence, n) ==
    LET amt == IF n <= Len(byte_sequence) THEN n ELSE Len(byte_sequence)
    IN  [filled |-> [i \in 1..n |-> IF i <= amt THEN byte_sequence[i] ELSE 0],
         rest   |-> SubSeq(byte_sequence, amt + 1, Len(byte_sequence))]

\* a checksum that leaves the type bytes out: C4 fails on it
preceding_bytes_data_only(type_bytes, data) == data

\* the bytes the checksum covers: chunk type bytes chained with the data
preceding_bytes(type_bytes, data) == type_bytes \o data

\* Chunk::new
Chunk_new(chunk_type, data) ==
    [length     |-> as_u32(Len(data)),
     chunk_type |-> chunk_type,
     chunk_data |-> data,
     crc        |-> checksum(preceding_bytes(bytes(chunk_type), data))]

\* try_from without the comparison of the stored CRC: C2 fails on it
Chunk_try_from_unchecked(value) ==
    LET r1         == Read(value, 4)
        length     == from_be_bytes(r1.filled)
        r2         == Read(r1.rest, 4)
        chunk_type == ChunkType_try_from(r2.filled)
        r3         == Read(r2.rest, as_usize(length))
        r4         == Read(r3.rest, 4)
    IN  IF ~chunk_type.ok THEN Err(chunk_type.err)
        ELSE Ok([length     |-> length,
                 chunk_type |-> chunk_type.val,
                 chunk_data |-> r3.filled,
                 crc        |-> from_be_bytes(r4.filled)])

\* impl TryFrom<&[u8]> for Chunk
Chunk_try_from(value) ==
    LET r1         == Read(value, 4)
        length     == from_be_bytes(r1.filled)
        r2         == Read(r1.rest, 4)
        chunk_type == ChunkType_try_from(r2.filled)
        r3         == Read(r2.rest, as_usize(length))
        chunk_data == r3.filled
        r4         == Read(r3.rest, 4)
        crc        == from_be_bytes(r4.filled)
        crc_check  == checksum(preceding_bytes(r2.filled, chunk_data))
    IN  IF ~chunk_type.ok THEN Err(chunk_type.err)
        ELSE IF crc # crc_check THEN Err("InvalidByteSequence")
        ELSE Ok([length     |-> length,
                 chunk_type |-> chunk_type.val,
                 chunk_data |-> chunk_data,
                 crc        |-> crc])

\* as_bytes writing the CRC little-endian (to_le_bytes): C1 fails on it
Chunk_as_bytes_le(c) ==
    LET crc == to_be_bytes(c.crc)
    IN  to_be_bytes(c.length) \o bytes(c.chunk_type) \o c.chunk_data
            \o <<crc[4], crc[3], crc[2], crc[1]>>

\* Chunk::as_bytes
Chunk_as_bytes(c) ==
    to_be_bytes(c.length) \o bytes(c.chunk_type) \o c.chunk_data \o to_be_bytes(c.crc)

\* Chunk::data_as_string
data_as_string(c) ==
    LET r == from_utf8(c.chunk_data) IN IF r.ok THEN r ELSE Err("FromUtf8Error")

----------------------------------------------------------------------------
(* crate::png, which commands.rs uses: the signature and an ordered sequence of    *)
(* chunks, with lookup, append and removal by chunk type.                          *)

STANDARD_HEADER == <<137, 80, 78, 71, 13, 10, 26, 10>>

\* the chunks of a buffer of back-to-back chunks, the cursor advancing by 12 + length
\* per chunk; leftover bytes too short to form a chunk are a failure
RECURSIVE Png_parse_chunks(_)
Png_parse_chunks(rest) ==
    IF rest = <<>> THEN Ok(<<>>)
    ELSE IF Len(rest) < 12 THEN Err("TruncatedBuffer")
    ELSE LET length == as_usize(from_be_bytes(SubSeq(rest, 1, 4)))
         IN  IF Len(rest) < 12 + length THEN Err("TruncatedBuffer")
             ELSE LET c == Chunk_try_from(SubSeq(rest, 1, 12 + length))
                  IN  IF ~c.ok THEN c
                      ELSE LET more == Png_parse_chunks(SubSeq(rest, 13 + length, Len(rest)))
                           IN  IF more.ok THEN Ok(<<c.val>> \o more.val) ELSE more

\* Png::try_from(bytes)
Png_try_from(value) ==
    IF Len(value) < 8 \/ SubSeq(value, 1, 8) # STANDARD_HEADER THEN Err("InvalidSignature")
    ELSE LET cs == Png_parse_chunks(SubSeq(value, 9, Len(value)))
         IN  IF cs.ok THEN Ok([chunks |-> cs.val]) ELSE cs

\* Png::append_chunk
Png_append_chunk(p, c) == [chunks |-> Append(p.chunks, c)]

\* does the chunk's type display as type_str
HasType(c, type_str) == ChunkType_to_string(c.chunk_type) = Ok(type_str)

\* the index of the first chunk of that type, 0 when there is none
FirstIndex(p, type_str) ==
    LET hits == {i \in 1..Len(p.chunks) : HasType(p.chunks[i], type_str)}
    IN  IF hits = {} THEN 0 ELSE CHOOSE i \in hits : \A j \in hits : i <= j

\* Png::chunk_by_type
Png_chunk_by_type(p, type_str) ==
    LET i == FirstIndex(p, type_str)
    IN  IF i = 0 THEN None ELSE Some(p.chunks[i])

\* a removal that succeeds silently when no chunk matches: C6 fails on it
Png_remove_first_chunk_silent(p, type_str) ==
    LET i == FirstIndex(p, type_str)
    IN  IF i = 0 THEN Ok([png |-> p, removed |-> None])
        ELSE Ok([png     |-> [chunks |-> SubSeq(p.chunks, 1, i - 1)
                                          \o SubSeq(p.chunks, i + 1, Len(p.chunks))],
                 removed |-> Some(p.chunks[i])])

\* Png::remove_first_chunk: the container without its first chunk of that type, and
\* the chunk removed, or ChunkNotFound
Png_remove_first_chunk(p, type_str) ==
    LET i == FirstIndex(p, type_str)
    IN  IF i = 0 THEN Err("ChunkNotFound")
        ELSE Ok([png     |-> [chunks |-> SubSeq(p.chunks, 1, i - 1)
                                          \o SubSeq(p.chunks, i + 1, Len(p.chunks))],
                 removed |-> Some(p.chunks[i])])

\* Png::chunks
Png_chunks(p) == p.chunks

RECURSIVE ConcatBytes(_)
ConcatBytes(cs) == IF cs = <<>> THEN <<>> ELSE Chunk_as_bytes(Head(cs)) \o ConcatBytes(Tail(cs))

\* Png::as_bytes
Png_as_bytes(p) == STANDARD_HEADER \o ConcatBytes(p.chunks)

----------------------------------------------------------------------------
(* Inputs of the chunk round trip *)

MaxDataLen == 2

MaxDeclLen == 4

DataBytes == {0, 65, 255}

RECURSIVE SeqsUpTo(_, _)
SeqsUpTo(S, n) ==
    IF n = 0 THEN {<<>>}
    ELSE LET shorter == SeqsUpTo(S, n - 1)
         IN  shorter \cup {Append(s, x) : s \in {t \in shorter : Len(t) = n - 1}, x \in S}

\* "RuSt", "Rust", "rStr" (the CRC of "rStr" ends in a zero byte) and "AZaz"
RuSt == <<82, 117, 83, 116>>

TypeStrings == {RuSt, <<82, 117, 115, 116>>, <<114, 83, 116, 114>>, <<65, 90, 97, 122>>}

\* "This is where your secret message will be!"
Message ==
    <<84, 104, 105, 115, 32, 105, 115, 32, 119, 104, 101, 114, 101, 32, 121, 111,
      117, 114, 32, 115, 101, 99, 114, 101, 116, 32, 109, 101, 115, 115, 97, 103,
      101, 32, 119, 105, 108, 108, 32, 98, 101, 33>>

ChunkInputs ==
    (TypeStrings \X SeqsUpTo(DataBytes, MaxDataLen)) \cup {<<RuSt, as_bytes(Message)>>}

----------------------------------------------------------------------------
(* The chunk round trip: build, serialize, damage, parse *)

IdleType == [name |-> "none"]

InitOthersChunk ==
    /\ type_op = IdleType
    /\ png = <<>>
    /\ hist = <<>>
    /\ disk = <<>>
    /\ ret = None
    /\ stdout = <<>>

Init ==
    /\ chunk = None
    /\ buf = <<>>
    /\ parsed = None
    /\ stage = "start"
    /\ InitOthersChunk

OthersChunk == <<type_op, png, hist, disk, ret, stdout>>

\* let chunk = Chunk::new(ChunkType::from_str(s).unwrap(), data)
NewChunk ==
    /\ stage = "start"
    /\ \E in \in ChunkInputs :
          chunk' = Some(Chunk_new(ChunkType_from_str(in[1]).val, in[2]))
    /\ stage' = "new"
    /\ UNCHANGED <<buf, parsed, OthersChunk>>

\* let bytes = chunk.as_bytes()
AsBytes ==
    /\ stage = "new"
    /\ buf' = Chunk_as_bytes(chunk.val)
    /\ stage' = "bytes"
    /\ UNCHANGED <<chunk, parsed, OthersChunk>>

\* one bit of a type byte or of a data byte is inverted
FlipBit ==
    /\ stage = "bytes"
    /\ ~parsed.some
    /\ \E i \in 5..(Len(buf) - 4), k \in 0..7 :
          buf' = [buf EXCEPT ![i] = Xor(@, 2 ^ k)]
    /\ stage' = "flipped"
    /\ UNCHANGED <<chunk, parsed, OthersChunk>>

\* one bit of the stored CRC is inverted (test_invalid_chunk_from_bytes)
CorruptCrc ==
    /\ stage = "bytes"
    /\ ~parsed.some
    /\ \E i \in (Len(buf) - 3)..Len(buf), k \in 0..7 :
          buf' = [buf EXCEPT ![i] = Xor(@, 2 ^ k)]
    /\ stage' = "badcrc"
    /\ UNCHANGED <<chunk, parsed, OthersChunk>>

\* the buffer is cut short
Truncate ==
    /\ stage = "bytes"
    /\ ~parsed.some
    /\ \E n \in 0..(Len(buf) - 1) : buf' = SubSeq(buf, 1, n)
    /\ stage' = "truncated"
    /\ UNCHANGED <<chunk, parsed, OthersChunk>>

\* the length field declares another length than the data has
Relength ==
    /\ stage = "bytes"
    /\ ~parsed.some
    /\ \E l \in 0..MaxDeclLen :
          /\ as_u32(l) # chunk.val.length
          /\ buf' = to_be_bytes(as_u32(l)) \o SubSeq(buf, 5, Len(buf))
    /\ stage' = "relength"
    /\ UNCHANGED <<chunk, parsed, OthersChunk>>

\* Chunk::try_from(buf.as_ref())
TryFrom ==
    /\ stage \in {"bytes", "flipped", "badcrc", "truncated", "relength"}
    /\ ~parsed.some
    /\ parsed' = Some(Chunk_try_from(buf))
    /\ UNCHANGED <<chunk, buf, stage, OthersChunk>>

Next == NewChunk \/ AsBytes \/ FlipBit \/ CorruptCrc \/ Truncate \/ Relength \/ TryFrom

Spec == Init /\ [][Next]_vars

----------------------------------------------------------------------------
(* Properties of the chunk round trip *)

Built == chunk.val

Result == parsed.val

\* C1: for every chunk c built by Chunk::new, Chunk::try_from(c.as_bytes()) succeeds
\* and returns a chunk with the same chunk_type, data, length and crc as c.
C1_RoundTrip ==
    (stage = "bytes" /\ parsed.some) =>
        /\ Result.ok
        /\ Result.val.chunk_type = Built.chunk_type
        /\ Result.val.chunk_data = Built.chunk_data
        /\ Result.val.length = Built.length
        /\ Result.val.crc = Built.crc

C1_Witness ==
    /\ stage = "bytes"
    /\ parsed.some
    /\ Result.ok
    /\ Len(Built.chunk_data) = MaxDataLen
    /\ Result.val.chunk_data = Built.chunk_data

WellFormed(c) ==
    /\ c.crc = checksum(c.chunk_type.type_code \o c.chunk_data)
    /\ as_usize(c.length) = Len(c.chunk_data)

\* C2: every Chunk that exists, built by Chunk::new or returned by a successful
\* Chunk::try_from on any buffer, has crc equal to the CRC-32 of its type bytes
\* followed by its data, and length equal to the number of its data bytes.
C2_WellFormed ==
    /\ chunk.some => WellFormed(Built)
    /\ (parsed.some /\ Result.ok) => WellFormed(Result.val)

\* a chunk parsed from a buffer that is no chunk's serialization
C2_Witness ==
    /\ parsed.some
    /\ Result.ok
    /\ stage = "truncated"
    /\ WellFormed(Result.val)

\* the buffer holds fewer bytes than 12, or than 12 + the length it declares
Short(b) ==
    \/ Len(b) < 12
    \/ Len(b) < 12 + as_usize(from_be_bytes(SubSeq(b, 1, 4)))

\* C3: Chunk::try_from fails with a read (truncated-buffer) error whenever the buffer
\* holds fewer bytes than a field requires; every buffer shorter than 12 bytes is
\* rejected with that error, and no buffer shorter than 12 + its declared length
\* parses successfully.
C3_TruncatedIsReadError ==
    (parsed.some /\ Short(buf)) => (~Result.ok /\ Result.err = "UnexpectedEof")

\* C4, as claimed: after one bit of a type byte or of a data byte of c.as_bytes() is
\* inverted, Chunk::try_from fails with the checksum error InvalidByteSequence and
\* with no other error.
C4_FlipIsChecksumError ==
    (stage = "flipped" /\ parsed.some) =>
        (~Result.ok /\ Result.err = "InvalidByteSequence")

TypeBytesAreLetters(b) == \A i \in 5..8 : IsLetter(b[i])

\* C4, amended: after one bit of a type byte or of a data byte of c.as_bytes() is
\* inverted, Chunk::try_from fails: with InvalidByteSequence when the four type bytes
\* are still ASCII letters (so for every data bit), and with InvalidTypeCodeError when
\* the inverted bit leaves a type byte that is no letter.
C4_FlipFails ==
    (stage = "flipped" /\ parsed.some) =>
        /\ ~Result.ok
        /\ Result.err = IF TypeBytesAreLetters(buf) THEN "InvalidByteSequence"
                        ELSE "InvalidTypeCodeError"

\* a type byte was changed into another letter and the checksum caught it
C4_Witness ==
    /\ stage = "flipped"
    /\ parsed.some
    /\ SubSeq(buf, 5, 8) # Built.chunk_type.type_code
    /\ TypeBytesAreLetters(buf)
    /\ ~Result.ok
    /\ Result.err = "InvalidByteSequence"

IsKnownVector == chunk.some /\ Built.chunk_type.type_code = RuSt /\ Built.chunk_data = Message

\* 42 ++ "RuSt" ++ message ++ 2882656334, big-endian (2882656334 = 0xABD1D84E)
KnownBuffer == <<0, 0, 0, 42>> \o RuSt \o Message \o <<171, 209, 216, 78>>

\* C5: Chunk::new("RuSt", "This is where your secret message will be!") has length 42
\* and crc 2882656334 = 43985 * 65536 + 55374; the buffer 42 ++ "RuSt" ++ message ++
\* 2882656334 (big-endian) is its serialization and parses to the same field values.
C5_KnownVector ==
    /\ IsKnownVector =>
          /\ Built.length = <<0, 42>>
          /\ Built.crc = <<43985, 55374>>
    /\ (IsKnownVector /\ stage = "bytes") =>
          /\ buf = KnownBuffer
          /\ parsed.some =>
                /\ Result.ok
                /\ Result.val.length = <<0, 42>>
                /\ Result.val.chunk_type.type_code = RuSt
                /\ Result.val.chunk_data = Message
                /\ Result.val.crc = <<43985, 55374>>

C5_Witness ==
    /\ IsKnownVector
    /\ stage = "bytes"
    /\ buf = KnownBuffer
    /\ parsed.some
    /\ Result.ok

----------------------------------------------------------------------------
(* Constructing chunk types *)

MaxStrLen == 5

\* '@', 'A', 'Z', 'a', 'z', '{' and the two-byte char U+00E9
Chars == {64, 65, 90, 97, 122, 123, 233}

\* "RuSt", "Rust", "ruSt", "RUSt", "RuST", "Ru1t"
Rust == <<82, 117, 115, 116>>

NamedCodes ==
    {RuSt, Rust, <<114, 117, 83, 116>>, <<82, 85, 83, 116>>, <<82, 117, 83, 84>>,
     <<82, 117, 49, 116>>}

StrInputs == SeqsUpTo(Chars, MaxStrLen) \cup NamedCodes

\* the letters' neighbours, the first and last letters, and bytes that are no ASCII
ArrayBytes == {0, 64, 65, 90, 91, 96, 97, 122, 123, 255}

ArrayInputs == [1..4 -> ArrayBytes] \cup NamedCodes

InitType ==
    /\ type_op = IdleType
    /\ chunk = None
    /\ buf = <<>>
    /\ parsed = None
    /\ stage = "start"
    /\ png = <<>>
    /\ hist = <<>>
    /\ disk = <<>>
    /\ ret = None
    /\ stdout = <<>>

OthersType == <<chunk, buf, parsed, stage, png, hist, disk, ret, stdout>>

\* ChunkType::from_str(s)
FromStr ==
    /\ type_op.name = "none"
    /\ \E s \in StrInputs :
          type_op' = [name |-> "from_str", input |-> s, result |-> ChunkType_from_str(s)]
    /\ UNCHANGED OthersType

\* ChunkType::try_from(b)
TryFromArray ==
    /\ type_op.name = "none"
    /\ \E b \in ArrayInputs :
          type_op' = [name |-> "try_from", input |-> b, result |-> ChunkType_try_from(b)]
    /\ UNCHANGED OthersType

NextType == FromStr \/ TryFromArray

SpecType == InitType /\ [][NextType]_vars

----------------------------------------------------------------------------
(* Properties of chunk types *)

Letters == (65..90) \cup (97..122)

Constructed == type_op.name # "none" /\ type_op.result.ok

TypeCode == type_op.result.val.type_code

\* C7: from_str(s) succeeds iff s is exactly 4 characters, each an ASCII letter, and
\* try_from(b) succeeds iff all 4 bytes are ASCII letters; otherwise both fail with
\* InvalidTypeCodeError.  For a 4-letter s, from_str(s) equals try_from(the bytes of s),
\* bytes() returns those 4 bytes and the display string is s.
C7_Construction ==
    /\ type_op.name = "from_str" =>
          /\ type_op.result.ok <=>
                (Len(type_op.input) = 4 /\ \A i \in 1..4 : type_op.input[i] \in Letters)
          /\ ~type_op.result.ok => type_op.result.err = "InvalidTypeCodeError"
          /\ type_op.result.ok =>
                /\ type_op.result = ChunkType_try_from(as_bytes(type_op.input))
                /\ bytes(type_op.result.val) = as_bytes(type_op.input)
                /\ ChunkType_to_string(type_op.result.val) = Ok(type_op.input)
    /\ type_op.name = "try_from" =>
          /\ type_op.result.ok <=> \A i \in 1..4 : type_op.input[i] \in Letters
          /\ ~type_op.result.ok => type_op.result.err = "InvalidTypeCodeError"
          /\ type_op.result.ok => bytes(type_op.result.val) = type_op.input

C7_Witness ==
    /\ type_op.name = "from_str"
    /\ type_op.input = RuSt
    /\ type_op.result.ok
    /\ type_op.result = ChunkType_try_from(<<82, 117, 83, 116>>)
    /\ ChunkType_to_string(type_op.result.val) = Ok(RuSt)

\* bit 5 (0x20) of the byte is set
Bit5Set(b) == b % 64 >= 32

\* C8: is_valid() is true iff all 4 bytes are ASCII letters and bit 5 of byte 2 is
\* clear.  Construction does not enforce the reserved bit: "Rust" is constructed by
\* both constructors and is not valid.
C8_Validity ==
    /\ Constructed =>
          (is_valid(type_op.result.val) <=>
              ((\A i \in 1..4 : TypeCode[i] \in Letters) /\ ~Bit5Set(TypeCode[3])))
    /\ (type_op.name # "none" /\ type_op.input = Rust) =>
          (type_op.result.ok /\ ~is_valid(type_op.result.val))

C8_Witness ==
    /\ type_op.name = "try_from"
    /\ type_op.input = Rust
    /\ type_op.result.ok
    /\ ~is_valid(type_op.result.val)

\* C9: is_critical() iff bit 5 of byte 0 is clear, is_public() iff bit 5 of byte 1 is
\* clear, is_reserved_bit_valid() iff bit 5 of byte 2 is clear, is_safe_to_copy() iff
\* bit 5 of byte 3 is set; that is, the first three hold iff the letter is upper-case
\* and the fourth iff the letter is lower-case.
C9_PropertyBits ==
    Constructed =>
        /\ is_critical(type_op.result.val) <=> ~Bit5Set(TypeCode[1])
        /\ is_public(type_op.result.val) <=> ~Bit5Set(TypeCode[2])
        /\ is_reserved_bit_valid(type_op.result.val) <=> ~Bit5Set(TypeCode[3])
        /\ is_safe_to_copy(type_op.result.val) <=> Bit5Set(TypeCode[4])
        /\ is_critical(type_op.result.val) <=> TypeCode[1] \in 65..90
        /\ is_public(type_op.result.val) <=> TypeCode[2] \in 65..90
        /\ is_reserved_bit_valid(type_op.result.val) <=> TypeCode[3] \in 65..90
        /\ is_safe_to_copy(type_op.result.val) <=> TypeCode[4] \in 97..122

\* "RuSt": critical, private, reserved bit valid, safe to copy
C9_Witness ==
    /\ Constructed
    /\ TypeCode = RuSt
    /\ is_critical(type_op.result.val)
    /\ ~is_public(type_op.result.val)
    /\ is_reserved_bit_valid(type_op.result.val)
    /\ is_safe_to_copy(type_op.result.val)

----------------------------------------------------------------------------
(* The container: appending and removing chunks *)

MaxChunks == 3

\* "TEST"
TEST == <<84, 69, 83, 84>>

\* what the container is asked for: "TEST", "RuSt", and "Ru1t", which is no type code
TypeArgs == {TEST, RuSt, <<82, 117, 49, 116>>}

\* two chunks of type TEST with different data, and one of type RuSt
PngChunks ==
    {Chunk_new(ChunkType_from_str(TEST).val, <<65>>),
     Chunk_new(ChunkType_from_str(TEST).val, <<66>>),
     Chunk_new(ChunkType_from_str(RuSt).val, <<>>)}

\* the three latest operations
Latest(h) == IF Len(h) < 3 THEN h ELSE SubSeq(h, Len(h) - 2, Len(h))

InitPng ==
    /\ png = [chunks |-> <<>>]
    /\ hist = <<>>
    /\ type_op = IdleType
    /\ chunk = None
    /\ buf = <<>>
    /\ parsed = None
    /\ stage = "start"
    /\ disk = <<>>
    /\ ret = None
    /\ stdout = <<>>

OthersPng == <<type_op, chunk, buf, parsed, stage, disk, ret, stdout>>

\* png.append_chunk(c)
AppendChunk ==
    /\ Len(png.chunks) < MaxChunks
    /\ \E c \in PngChunks :
          /\ png' = Png_append_chunk(png, c)
          /\ hist' = Latest(Append(hist,
                 [op |-> "append", type |-> ChunkType_to_string(c.chunk_type).val,
                  ok |-> TRUE, before |-> png.chunks]))
    /\ UNCHANGED OthersPng

\* png.remove_first_chunk(type_str)
RemoveFirstChunk ==
    /\ \E t \in TypeArgs :
          LET r == Png_remove_first_chunk(png, t)
          IN  /\ png' = IF r.ok THEN r.val.png ELSE png
              /\ hist' = Latest(Append(hist,
                     [op |-> "remove", type |-> t, ok |-> r.ok, before |-> png.chunks]))
    /\ UNCHANGED OthersPng

NextPng == AppendChunk \/ RemoveFirstChunk

SpecPng == InitPng /\ [][NextPng]_vars

\* the latest operations were append_chunk(c), c of type T, then remove_first_chunk(T)
AppendedThenRemoved(h, i) ==
    /\ i >= 1
    /\ i + 1 <= Len(h)
    /\ h[i].op = "append"
    /\ h[i + 1].op = "remove"
    /\ h[i + 1].type = h[i].type

\* what C6 promises of the operations from position i on
RemovedAgain(h, i) ==
    /\ h[i + 1].ok
    /\ IF i + 2 <= Len(h)
       THEN /\ h[i + 2].before = h[i].before
            /\ (h[i + 2].op = "remove" /\ h[i + 2].type = h[i].type) => ~h[i + 2].ok
       ELSE png.chunks = h[i].before

\* C6, as claimed: in any container state, after append_chunk(c) with c of type T,
\* remove_first_chunk(T) succeeds and leaves the sequence as it was before the append
\* (c absent, the others in their order), and a second remove_first_chunk(T) fails
\* with ChunkNotFound.
C6_AppendRemoveAnyState ==
    \A i \in 1..2 : AppendedThenRemoved(hist, i) => RemovedAgain(hist, i)

NoneOfType(cs, t) == \A j \in 1..Len(cs) : ~HasType(cs[j], t)

\* C6, amended: the same, for a container holding no chunk of type T before the
\* append.
C6_AppendRemove ==
    \A i \in 1..2 :
        (AppendedThenRemoved(hist, i) /\ NoneOfType(hist[i].before, hist[i].type))
            => RemovedAgain(hist, i)

\* a chunk was appended to a container holding other chunks, removed, and the second
\* removal failed
C6_Witness ==
    /\ Len(hist) = 3
    /\ AppendedThenRemoved(hist, 1)
    /\ hist[1].before # <<>>
    /\ NoneOfType(hist[1].before, hist[1].type)
    /\ hist[3].op = "remove"
    /\ hist[3].type = hist[1].type
    /\ ~hist[3].ok
    /\ png.chunks = hist[1].before

----------------------------------------------------------------------------
(* commands.rs.  A command's outcome is what run returns (result), the error a core  *)
(* operation returned to it, if any (core), the file system it leaves and the lines  *)
(* it printed.                                                                       *)

\* std::fs::read
fs_read(d, path) == IF d[path].some THEN Ok(d[path].val) ELSE Err("NotFound")

\* std::fs::write
fs_write(d, path, contents) == [d EXCEPT ![path] = Some(contents)]

Outcome(result, core, d, lines) ==
    [result |-> result, core |-> core, disk |-> d, stdout |-> lines]

\* impl Display for Chunk
Chunk_fmt(c) ==
    [Length |-> c.length, Type |-> ChunkType_to_string(c.chunk_type).val,
     Data |-> Len(c.chunk_data), Crc |-> c.crc]

\* the first two steps of every command:
\* let file_bytes = fs::read(&args.file_path)?; let png = Png::try_from(file_bytes.as_ref())?;
\* each step is an operator of the value the step before produced
parsed_file(p) == [png |-> p, core |-> IF p.ok THEN None ELSE Some(p.err)]

read_file(file_bytes) ==
    IF ~file_bytes.ok THEN [png |-> file_bytes, core |-> None]
    ELSE parsed_file(Png_try_from(file_bytes.val))

open_png(d, path) == read_file(fs_read(d, path))

encode_png(args, d, f) ==
    LET output_file == IF args.output_file.some THEN args.output_file.val ELSE args.file_path
        chunk_type  == ChunkType_from_str(args.chunk_type)
        message     == as_bytes(args.message)
        appended    == Png_append_chunk(f.png.val, Chunk_new(chunk_type.val, message))
    IN  IF ~f.png.ok THEN Outcome(f.png, f.core, d, <<>>)
        ELSE IF ~chunk_type.ok THEN Outcome(chunk_type, Some(chunk_type.err), d, <<>>)
        ELSE Outcome(Ok(<<>>), None, fs_write(d, output_file, Png_as_bytes(appended)), <<>>)

encode(args, d) == encode_png(args, d, open_png(d, args.file_path))

\* decode answering Ok when the chunk's data is no UTF-8 text: C10 fails on it
decode_lossy_png(args, d, f) ==
    LET message_chunk == Png_chunk_by_type(f.png.val, args.chunk_type)
        text          == data_as_string(message_chunk.val)
    IN  IF ~f.png.ok THEN Outcome(f.png, f.core, d, <<>>)
        ELSE IF ~message_chunk.some
             THEN Outcome(Ok(<<>>), None, d, <<"No message found in PNG with given chunk type">>)
        ELSE IF ~text.ok THEN Outcome(Ok(<<>>), Some(text.err), d, <<"Message: ">>)
        ELSE Outcome(Ok(<<>>), None, d, <<<<"Message: ", text.val>>>>)

decode_lossy(args, d) == decode_lossy_png(args, d, open_png(d, args.file_path))

decode_png(args, d, f) ==
    LET message_chunk == Png_chunk_by_type(f.png.val, args.chunk_type)
        text          == data_as_string(message_chunk.val)
    IN  IF ~f.png.ok THEN Outcome(f.png, f.core, d, <<>>)
        ELSE IF ~message_chunk.some
             THEN Outcome(Ok(<<>>), None, d, <<"No message found in PNG with given chunk type">>)
        ELSE IF ~text.ok THEN Outcome(text, Some(text.err), d, <<>>)
        ELSE Outcome(Ok(<<>>), None, d, <<<<"Message: ", text.val>>>>)

decode(args, d) == decode_png(args, d, open_png(d, args.file_path))

remove_png(args, d, f) ==
    LET removed == Png_remove_first_chunk(f.png.val, args.chunk_type)
    IN  IF ~f.png.ok THEN Outcome(f.png, f.core, d, <<>>)
        ELSE IF removed.ok
             THEN Outcome(Ok(<<>>), None,
                          fs_write(d, args.file_path, Png_as_bytes(removed.val.png)),
                          <<<<"Removed message from ", args.file_path>>>>)
        ELSE Outcome(Ok(<<>>), Some(removed.err), d,
                     <<"Failed to remove message from PNG, no message in chunk type">>)

remove(args, d) == remove_png(args, d, open_png(d, args.file_path))

print_png(args, d, f) ==
    IF ~f.png.ok THEN Outcome(f.png, f.core, d, <<>>)
    ELSE Outcome(Ok(<<>>), None, d,
                 [i \in 1..Len(Png_chunks(f.png.val)) |-> Chunk_fmt(Png_chunks(f.png.val)[i])])

print(args, d) == print_png(args, d, open_png(d, args.file_path))

run(feature, args, d) ==
    CASE feature = "Encode" -> encode(args, d)
      [] feature = "Decode" -> decode(args, d)
      [] feature = "Remove" -> remove(args, d)
      [] feature = "Print"  -> print(args, d)

----------------------------------------------------------------------------
(* The commands at work on a file *)

MaxFileChunks == 2

Paths == {"a.png", "b.png"}

\* RuSt with data that is no UTF-8 text
BinaryChunk == Chunk_new(ChunkType_from_str(RuSt).val, <<255>>)

\* a well-formed file with no chunk and one with a chunk; a wrong signature; a chunk
\* cut short; a wrong CRC; a type code with a digit
InitialFiles ==
    {None,
     Some(STANDARD_HEADER),
     Some(STANDARD_HEADER \o Chunk_as_bytes(BinaryChunk)),
     Some(<<0>> \o Tail(STANDARD_HEADER) \o Chunk_as_bytes(BinaryChunk)),
     Some(STANDARD_HEADER \o SubSeq(Chunk_as_bytes(BinaryChunk), 1, 9)),
     Some(STANDARD_HEADER \o [Chunk_as_bytes(BinaryChunk) EXCEPT ![13] = Xor(@, 1)]),
     Some(STANDARD_HEADER \o [Chunk_as_bytes(BinaryChunk) EXCEPT ![7] = 49])}

\* the chunks of the file, when it is a well-formed file
ChunksOf(f) == IF f.png.ok THEN f.png.val.chunks ELSE <<>>

FileChunks(d, path) == ChunksOf(open_png(d, path))

InitCli ==
    /\ \E f \in InitialFiles : disk = [path \in Paths |-> IF path = "a.png" THEN f ELSE None]
    /\ ret = None
    /\ stdout = <<>>
    /\ type_op = IdleType
    /\ chunk = None
    /\ buf = <<>>
    /\ parsed = None
    /\ stage = "start"
    /\ png = <<>>
    /\ hist = <<>>

OthersCli == <<type_op, chunk, buf, parsed, stage, png, hist>>

Left(feature, o) ==
    /\ ret' = Some([feature |-> feature, result |-> o.result, core |-> o.core])
    /\ disk' = o.disk
    /\ stdout' = o.stdout
    /\ UNCHANGED OthersCli

Ran(feature, args) == Left(feature, run(feature, args, disk))

\* pngme encode a.png <chunk_type> A [b.png]
RunEncode ==
    /\ Len(FileChunks(disk, "a.png")) < MaxFileChunks
    /\ \E t \in TypeArgs, out \in {None, Some("b.png")} :
          Ran("Encode", [file_path |-> "a.png", chunk_type |-> t, message |-> <<65>>,
                         output_file |-> out])

\* pngme decode a.png <chunk_type>
RunDecode ==
    \E t \in TypeArgs : Ran("Decode", [file_path |-> "a.png", chunk_type |-> t])

\* pngme remove a.png <chunk_type>
RunRemove ==
    \E t \in TypeArgs : Ran("Remove", [file_path |-> "a.png", chunk_type |-> t])

\* pngme print a.png
RunPrint == Ran("Print", [file_path |-> "a.png"])

NextCli == RunEncode \/ RunDecode \/ RunRemove \/ RunPrint

SpecCli == InitCli /\ [][NextCli]_vars

\* C10, as claimed: whenever a core operation a command invokes returns an error, run
\* returns an error; no core error, ChunkNotFound included, becomes a success.
C10_NoCoreErrorSwallowed ==
    (ret.some /\ ret.val.core.some) => ~ret.val.result.ok

\* C10, amended: whenever a core operation a command invokes returns an error, run
\* returns that error, except ChunkNotFound from remove_first_chunk: remove prints its
\* failure line and returns Ok.
C10_CoreErrorsPropagate ==
    (ret.some /\ ret.val.core.some) =>
        IF ret.val.feature = "Remove" /\ ret.val.core.val = "ChunkNotFound"
        THEN /\ ret.val.result.ok
             /\ stdout = <<"Failed to remove message from PNG, no message in chunk type">>
        ELSE /\ ~ret.val.result.ok
             /\ ret.val.result.err = ret.val.core.val

\* decode found the chunk, its data is no UTF-8 text, and run returned the error
C10_Witness ==
    /\ ret.some
    /\ ret.val.feature = "Decode"
    /\ ret.val.core = Some("FromUtf8Error")
    /\ ~ret.val.result.ok

============================================================================
